---- MODULE Spec2Model ----
(***************************************************************************)
(* Model of save_resume (src/src/save_resume.cpp): the scheduler that      *)
(* spreads save_resume_data() requests for the torrents of a session over  *)
(* m_interval, counts the requests in flight and keeps one .resume file    *)
(* per torrent in the resume directory.                                    *)
(*                                                                         *)
(* One action is one delivery of an alert to handle_alert (the branch for  *)
(* the alert type followed by the throttled pass), or one call of          *)
(* save_all.  The session (torrents, their metadata and dirty flags, the   *)
(* answers to save requests) and the clock are the environment.            *)
(***************************************************************************)
EXTENDS Integers, Sequences, FiniteSets, TLC

\* ---- bounds of the model ------------------------------------------------
NumTorrents == 2
MaxTime == 300
MaxOutstanding == 2
MaxFailed == 1
CalcMaxN == 10
CalcMaxElapsed == 700
MaxFiles == 4

Torrents == 1..NumTorrents
\* seconds that may pass between two alerts
ClockSteps == {0, 150}
\* the same, where only stats_alerts arrive
CalcSteps == {0, 10, 20, 30, 50, 100, 300, 400}

\* ---- program constants --------------------------------------------------
\* m_interval(minutes(5)), in seconds
Interval == 300
\* m_torrents.end(): the one-past-the-end iterator
END == 0

\* the alert types the constructor subscribes to
Subscribed ==
  {"add_torrent", "torrent_removed", "stats", "save_resume_data", "metadata_received"}

VARIABLES
  m_torrents,       \* the set, as the sequence of its elements in iteration order
  m_cursor,         \* the element the iterator refers to, or END
  m_last_save,      \* seconds
  m_num_in_flight,
  files,            \* info-hashes that have a .resume file in m_resume_dir
  now,              \* time_now() at the latest alert, seconds since construction
  session,          \* torrents in the session
  has_metadata,     \* torrent_status::has_metadata of each torrent
  need_save,        \* torrent_handle::need_save_resume_data() of each torrent
  outstanding,      \* per torrent: save requests issued by save_resume, not yet answered
  failed,           \* save_resume_data_failed_alerts posted for those requests
  crashed,          \* the process executed undefined behaviour and died
  slots,            \* iterations of the loop of the throttled pass since construction
  last,             \* the latest step: <<what happened, to which torrent, m_cursor before it>>
  cursor_valid,     \* no insert() has rehashed m_torrents since m_cursor was assigned
  invalid_use,      \* where an invalidated m_cursor was first used: "none", "pass", "removal"
  scan              \* load(): the directory, the position in it, the error, the adds submitted

\* what load() does not touch, and what only load() touches
objVars == <<m_torrents, m_cursor, m_last_save, m_num_in_flight, files, now, session,
             has_metadata, need_save, outstanding, failed, crashed, slots,
             last, cursor_valid, invalid_use>>

vars == <<objVars, scan>>

\* ---- boost::unordered_set<torrent_handle> and its iterators -------------
Range(s) == {s[i] : i \in 1..Len(s)}

Min(a, b) == IF a < b THEN a ELSE b

\* m_torrents.begin()
Begin(s) == IF Len(s) = 0 THEN END ELSE s[1]

IndexOf(s, t) == CHOOSE i \in 1..Len(s) : s[i] = t

\* ++it, for an iterator that refers to an element
Succ(s, t) == IF IndexOf(s, t) = Len(s) THEN END ELSE s[IndexOf(s, t) + 1]

\* m_torrents.insert(h) when h lands at position k of the iteration order
InsertAt(s, t, k) ==
  IF t \in Range(s) THEN s
  ELSE SubSeq(s, 1, k - 1) \o <<t>> \o SubSeq(s, k, Len(s))

\* m_torrents.erase(it)
Erase(s, t) == SelectSeq(s, LAMBDA x : x # t)

RECURSIVE SumOn(_, _)
SumOn(f, D) ==
  IF D = {} THEN 0 ELSE LET x == CHOOSE y \in D : TRUE IN f[x] + SumOn(f, D \ {x})

\* save requests issued by save_resume and not yet answered
Outstanding(out) == SumOn(out, DOMAIN out)

\* ---- the part of the object handle_alert works on -----------------------
Here ==
  [torrents |-> m_torrents, cursor |-> m_cursor, inflight |-> m_num_in_flight,
   last |-> m_last_save, out |-> outstanding, dirty |-> need_save, slots |-> slots,
   valid |-> cursor_valid, use |-> invalid_use]

\* the iterator m_cursor is used (dereferenced or incremented) at place w
UseCursor(S, w) ==
  IF ~S.valid /\ S.use = "none" THEN [S EXCEPT !.use = w] ELSE S

\* need_save_resume_data() of each torrent after save_resume_data() was
\* called for t: t has unsaved progress until a save of it has succeeded
DirtyOnRequest(dirty, t) == dirty

\* need_save_resume_data() of each torrent after the session has posted a
\* save_resume_data_alert for t: the resume data in the alert is up to date
DirtyOnAnswer(dirty, t) == [dirty EXCEPT ![t] = FALSE]

\* h.save_resume_data(torrent_handle::save_info_dict); ++m_num_in_flight;
RequestSave(S, t) ==
  [S EXCEPT !.out = [@ EXCEPT ![t] = @ + 1], !.inflight = @ + 1,
            !.dirty = DirtyOnRequest(@, t)]

\* num_to_save without line 150
NumToSaveNoClamp(n, elapsed, interval) == (n * elapsed) \div interval

\* num_to_save, lines 146-150
NumToSave(n, elapsed, interval) == Min((n * elapsed) \div interval, n)

\* the loop with ++m_cursor (line 165) inside the if of line 157
RECURSIVE SaveLoopStall(_, _, _)
SaveLoopStall(k, S, tm) ==
  IF k <= 0 THEN S
  ELSE LET c  == IF S.cursor = END THEN Begin(S.torrents) ELSE S.cursor
           S0 == IF S.cursor = END THEN [S EXCEPT !.valid = TRUE]
                 ELSE UseCursor(S, "pass")
           S1 == IF S0.dirty[c] THEN RequestSave(S0, c) ELSE S0
           S2 == [S1 EXCEPT !.last = tm, !.slots = @ + 1,
                            !.cursor = IF S0.dirty[c] THEN Succ(S.torrents, c) ELSE c]
       IN SaveLoopStall(k - 1, S2, tm)

\* the loop with line 163 inside the if of line 157
RECURSIVE SaveLoopNoStamp(_, _, _)
SaveLoopNoStamp(k, S, tm) ==
  IF k <= 0 THEN S
  ELSE LET c  == IF S.cursor = END THEN Begin(S.torrents) ELSE S.cursor
           S0 == IF S.cursor = END THEN [S EXCEPT !.valid = TRUE]
                 ELSE UseCursor(S, "pass")
           S1 == IF S0.dirty[c] THEN [RequestSave(S0, c) EXCEPT !.last = tm] ELSE S0
           S2 == [S1 EXCEPT !.cursor = Succ(S.torrents, c), !.slots = @ + 1]
       IN SaveLoopNoStamp(k - 1, S2, tm)

\* the while loop, lines 152-166; tm is time_now()
RECURSIVE SaveLoop(_, _, _)
SaveLoop(k, S, tm) ==
  IF k <= 0 THEN S
  ELSE LET c  == IF S.cursor = END THEN Begin(S.torrents) ELSE S.cursor
           S0 == IF S.cursor = END THEN [S EXCEPT !.valid = TRUE]
                 ELSE UseCursor(S, "pass")
           S1 == IF S0.dirty[c] THEN RequestSave(S0, c) ELSE S0
           S2 == [S1 EXCEPT !.last = tm, !.cursor = Succ(S.torrents, c),
                            !.slots = @ + 1]
       IN SaveLoop(k - 1, S2, tm)

\* the pass with m_last_save = time_now() also after the loop
ThrottledPassStamp(S, tm) ==
  IF Len(S.torrents) = 0 THEN S
  ELSE [SaveLoop(NumToSave(Len(S.torrents), tm - S.last, Interval), S, tm)
          EXCEPT !.last = tm]

\* lines 140-166
ThrottledPass(S, tm) ==
  IF Len(S.torrents) = 0 THEN S
  ELSE SaveLoop(NumToSave(Len(S.torrents), tm - S.last, Interval), S, tm)

\* the new state of the object
Commit(S) ==
  /\ Outstanding(S.out) <= MaxOutstanding
  /\ m_torrents' = S.torrents
  /\ m_cursor' = S.cursor
  /\ m_num_in_flight' = S.inflight
  /\ outstanding' = S.out
  /\ m_last_save' = S.last
  /\ need_save' = S.dirty
  /\ slots' = S.slots
  /\ cursor_valid' = S.valid
  /\ invalid_use' = S.use
  /\ UNCHANGED scan

\* handle_alert from line 140 on, d seconds after the previous alert: S is
\* the object as the branch for the alert left it
Tick(S, d, maxTime) ==
  /\ now + d <= maxTime
  /\ now' = now + d
  /\ Commit(ThrottledPass(S, now + d))

\* lines 82-95 without lines 93-94
AddBranchNoReset(S, t, hm, k) ==
  LET S1 == [S EXCEPT !.torrents = InsertAt(@, t, k)]
  IN IF hm THEN RequestSave(S1, t) ELSE S1

\* ---- the branches of handle_alert ---------------------------------------
\* lines 82-95
AddBranch(S, t, hm, k) ==
  LET S1 == [S EXCEPT !.torrents = InsertAt(@, t, k)]
      S2 == IF hm THEN RequestSave(S1, t) ELSE S1
  IN IF S2.cursor = END
     THEN [S2 EXCEPT !.cursor = Begin(S2.torrents), !.valid = TRUE]
     ELSE S2

\* lines 82-95 when insert() rehashes: the elements come in the iteration
\* order o, and an iterator to an element is no longer valid
AddBranchRehash(S, t, hm, o) ==
  LET S1 == [S EXCEPT !.torrents = o, !.valid = (S.cursor = END)]
      S2 == IF hm THEN RequestSave(S1, t) ELSE S1
  IN IF S2.cursor = END
     THEN [S2 EXCEPT !.cursor = Begin(S2.torrents), !.valid = TRUE]
     ELSE S2

\* lines 96-100 with an insert of the handle as in line 86
MetadataBranchInsert(S, t) ==
  RequestSave([S EXCEPT !.torrents = InsertAt(@, t, 1)], t)

\* lines 96-100
MetadataBranch(S, t) == RequestSave(S, t)

\* lines 101-121 without lines 119-120
RemoveBranchNoWrap(S, t) ==
  LET S1 == IF S.cursor = t THEN [S EXCEPT !.cursor = Succ(S.torrents, t)] ELSE S
  IN [S1 EXCEPT !.torrents = Erase(@, t)]

\* lines 101-121, for a handle that find() finds
RemoveBranch(S, t) ==
  LET wrapped == S.cursor = t /\ Succ(S.torrents, t) = END
      S1 == IF S.cursor = t
            THEN [UseCursor(S, "removal") EXCEPT !.cursor = Succ(S.torrents, t)]
            ELSE S
      S2 == [S1 EXCEPT !.torrents = Erase(@, t)]
  IN IF wrapped THEN [S2 EXCEPT !.cursor = Begin(S2.torrents), !.valid = TRUE] ELSE S2

\* lines 101-121 when find() returns end() and the undefined behaviour
\* (++ of end(), erase(end())) does nothing: wrapped is set if the cursor
\* was at end()
RemoveMissingBranch(S) ==
  IF S.cursor = END THEN [S EXCEPT !.cursor = Begin(S.torrents), !.valid = TRUE] ELSE S

\* lines 122-125 and 134-138: --m_num_in_flight, for an answer to a request for t
AnswerBranch(S, t) ==
  [S EXCEPT !.inflight = @ - 1, !.out = [@ EXCEPT ![t] = @ - 1]]

\* load() has not been called
NoScan == [dir |-> <<>>, pos |-> 1, ec |-> FALSE, submitted |-> <<>>, done |-> FALSE]

\* ---- initial state: the constructor, lines 54-68 ------------------------
\* The session may have torrents already; they were added before the
\* object subscribed, so they are not in m_torrents.
Init ==
  /\ m_torrents = <<>>
  /\ m_cursor = Begin(<<>>)
  /\ m_last_save = 0
  /\ m_num_in_flight = 0
  /\ files = {}
  /\ now = 0
  /\ session \in SUBSET Torrents
  /\ has_metadata \in [Torrents -> BOOLEAN]
  /\ \A t \in Torrents : has_metadata[t] => t \in session
  /\ need_save = [t \in Torrents |-> FALSE]
  /\ outstanding = [t \in Torrents |-> 0]
  /\ failed = 0
  /\ crashed = FALSE
  /\ slots = 0
  /\ last = <<"constructed", END, END>>
  /\ cursor_valid = TRUE
  /\ invalid_use = "none"
  /\ scan = NoScan

\* ---- the session makes progress ------------------------------------------
\* a torrent of m_torrents gets something its resume data does not have yet
\* (the flag of a torrent outside m_torrents is never read)
Progress(t) ==
  /\ ~crashed
  /\ t \in Range(m_torrents)
  /\ ~need_save[t]
  /\ need_save' = [need_save EXCEPT ![t] = TRUE]
  /\ last' = <<"progress", t, m_cursor>>
  /\ UNCHANGED <<m_torrents, m_cursor, m_last_save, m_num_in_flight, files, now,
                 session, has_metadata, outstanding, failed, crashed, slots,
                 cursor_valid, invalid_use, scan>>

\* ---- handle_alert, one action per alert type ----------------------------
\* add_torrent_alert for t: hm is st.has_metadata, dy whether t has
\* something to save, k where insert() puts t in the iteration order
TorrentAdded(t, hm, dy, k, d) ==
  /\ ~crashed
  /\ k \in 1..(Len(m_torrents) + 1)
  /\ t \in session => hm = has_metadata[t]
  /\ t \in Range(m_torrents) => dy = need_save[t] /\ k = 1
  /\ session' = session \cup {t}
  /\ has_metadata' = [has_metadata EXCEPT ![t] = hm]
  /\ Tick(AddBranch([Here EXCEPT !.dirty[t] = dy], t, hm, k), d, MaxTime)
  /\ last' = <<"add_torrent", t, m_cursor>>
  /\ UNCHANGED <<files, failed, crashed>>

\* metadata_received_alert for t
MetadataReceived(t, d) ==
  /\ ~crashed
  /\ t \in session
  /\ ~has_metadata[t]
  /\ has_metadata' = [has_metadata EXCEPT ![t] = TRUE]
  /\ Tick(MetadataBranch(Here, t), d, MaxTime)
  /\ last' = <<"metadata_received", t, m_cursor>>
  /\ UNCHANGED <<files, session, failed, crashed>>

\* torrent_removed_alert for a torrent in m_torrents
TorrentRemoved(t, d) ==
  /\ ~crashed
  /\ t \in session
  /\ t \in Range(m_torrents)
  /\ session' = session \ {t}
  /\ has_metadata' = [has_metadata EXCEPT ![t] = FALSE]
  /\ files' = files \ {t}
  /\ Tick(RemoveBranch([Here EXCEPT !.dirty[t] = FALSE], t), d, MaxTime)
  /\ last' = <<"torrent_removed", t, m_cursor>>
  /\ UNCHANGED <<failed, crashed>>

\* torrent_removed_alert for a torrent that is not in m_torrents: find()
\* returns end(), and ++m_cursor (if the cursor is at end()) and
\* erase(end()) are undefined.  Either the process dies, before or after
\* the file is removed, or the two calls happen to do nothing.
TorrentRemovedMissing(t, outcome, d) ==
  /\ ~crashed
  /\ t \in session
  /\ t \notin Range(m_torrents)
  /\ session' = session \ {t}
  /\ has_metadata' = [has_metadata EXCEPT ![t] = FALSE]
  /\ last' = <<"torrent_removed", t, m_cursor>>
  /\ \/ /\ outcome = "crash at ++"
        /\ m_cursor = END
        /\ d = 0
        /\ crashed' = TRUE
        /\ UNCHANGED <<m_torrents, m_cursor, m_last_save, m_num_in_flight, files,
                       now, need_save, outstanding, slots, cursor_valid,
                       invalid_use, scan>>
     \/ /\ outcome = "crash at erase"
        /\ d = 0
        /\ crashed' = TRUE
        /\ files' = files \ {t}
        /\ UNCHANGED <<m_torrents, m_cursor, m_last_save, m_num_in_flight, now,
                       need_save, outstanding, slots, cursor_valid, invalid_use,
                       scan>>
     \/ /\ outcome = "nothing"
        /\ files' = files \ {t}
        /\ Tick(RemoveMissingBranch(Here), d, MaxTime)
        /\ UNCHANGED crashed
  /\ UNCHANGED failed

\* save_resume_data_alert: the session answers one request for t.
\* written: whether save_file() wrote the file; its error_code is dropped.
SaveCompleted(t, written, d) ==
  /\ ~crashed
  /\ outstanding[t] > 0
  /\ files' = IF written THEN files \cup {t} ELSE files
  /\ Tick(AnswerBranch([Here EXCEPT !.dirty = DirtyOnAnswer(@, t)], t), d, MaxTime)
  /\ last' = <<"save_resume_data", t, m_cursor>>
  /\ UNCHANGED <<session, has_metadata, failed, crashed>>

\* save_resume_data_failed_alert: the session answers one request for t;
\* the alert reaches handle_alert only if its type was subscribed to.
SaveFailed(t, d) ==
  /\ ~crashed
  /\ outstanding[t] > 0
  /\ failed < MaxFailed
  /\ failed' = failed + 1
  /\ IF "save_resume_data_failed" \in Subscribed
     THEN Tick(AnswerBranch(Here, t), d, MaxTime)
     ELSE /\ d = 0
          /\ outstanding' = [outstanding EXCEPT ![t] = @ - 1]
          /\ UNCHANGED <<m_torrents, m_cursor, m_last_save, m_num_in_flight, now,
                         need_save, slots, cursor_valid, invalid_use, scan>>
  /\ last' = <<"save_resume_data_failed", t, m_cursor>>
  /\ UNCHANGED <<files, session, has_metadata, crashed>>

\* stats_alert: no branch, only the throttled pass
Heartbeat(d, maxTime) ==
  /\ ~crashed
  /\ Tick(Here, d, maxTime)
  /\ last' = <<"stats", END, m_cursor>>
  /\ UNCHANGED <<files, session, has_metadata, failed, crashed>>

\* ---- save_all, lines 169-178 --------------------------------------------
\* the loop of save_all without line 174
RECURSIVE SaveAllLoopNoSkip(_, _)
SaveAllLoopNoSkip(i, S) ==
  IF i > Len(S.torrents) THEN S
  ELSE SaveAllLoopNoSkip(i + 1, RequestSave(S, S.torrents[i]))

\* the loop of save_all from the i-th torrent on
RECURSIVE SaveAllLoop(_, _)
SaveAllLoop(i, S) ==
  IF i > Len(S.torrents) THEN S
  ELSE SaveAllLoop(i + 1,
         IF S.dirty[S.torrents[i]] THEN RequestSave(S, S.torrents[i]) ELSE S)

SaveAll ==
  /\ ~crashed
  /\ Commit(SaveAllLoop(1, Here))
  /\ last' = <<"save_all", END, m_cursor>>
  /\ UNCHANGED <<files, now, session, has_metadata, failed, crashed>>

Next ==
  \/ \E t \in Torrents : Progress(t)
  \/ \E t \in Torrents, hm \in BOOLEAN, dy \in BOOLEAN, k \in 1..(NumTorrents + 1),
        d \in ClockSteps : TorrentAdded(t, hm, dy, k, d)
  \/ \E t \in Torrents, d \in ClockSteps : MetadataReceived(t, d)
  \/ \E t \in Torrents, d \in ClockSteps : TorrentRemoved(t, d)
  \/ \E t \in Torrents, o \in {"crash at ++", "crash at erase", "nothing"},
        d \in ClockSteps : TorrentRemovedMissing(t, o, d)
  \/ \E t \in Torrents, w \in BOOLEAN, d \in ClockSteps : SaveCompleted(t, w, d)
  \/ \E t \in Torrents, d \in ClockSteps : SaveFailed(t, d)
  \/ \E d \in ClockSteps : Heartbeat(d, MaxTime)
  \/ SaveAll

Spec == Init /\ [][Next]_vars

\* ---- a fixed population that only gets stats_alerts ---------------------
\* n torrents were added right after construction (the cursor is on the
\* first one that was), nothing has been saved yet, none has anything to save
InitCalc ==
  /\ \E n \in 1..CalcMaxN :
       /\ m_torrents = [i \in 1..n |-> i]
       /\ m_cursor \in 1..n
       /\ session = 1..n
       /\ has_metadata = [t \in 1..n |-> FALSE]
       /\ need_save = [t \in 1..n |-> FALSE]
       /\ outstanding = [t \in 1..n |-> 0]
  /\ m_last_save = 0
  /\ m_num_in_flight = 0
  /\ files = {}
  /\ now = 0
  /\ failed = 0
  /\ crashed = FALSE
  /\ slots = 0
  /\ last = <<"constructed", END, END>>
  /\ cursor_valid = TRUE
  /\ invalid_use = "none"
  /\ scan = NoScan

NextCalc == \E d \in CalcSteps : Heartbeat(d, CalcMaxElapsed)

SpecCalc == InitCalc /\ [][NextCalc]_vars

\* ---- insertions that rehash ----------------------------------------------
\* insert() (line 86) rebuilds the bucket array when the set outgrows it. The
\* bucket count is the library's choice, so every insertion of a new element
\* may be one that rehashes; unordered_set::insert then invalidates iterators.

\* the iteration orders of the elements of set
Orders(set) == {o \in [1..Cardinality(set) -> set] : Range(o) = set}

\* add_torrent_alert for a new torrent t whose insert() rehashes
TorrentAddedRehash(t, hm, dy, o, d) ==
  /\ ~crashed
  /\ t \notin Range(m_torrents)
  /\ o \in Orders(Range(m_torrents) \cup {t})
  /\ t \in session => hm = has_metadata[t]
  /\ session' = session \cup {t}
  /\ has_metadata' = [has_metadata EXCEPT ![t] = hm]
  /\ Tick(AddBranchRehash([Here EXCEPT !.dirty[t] = dy], t, hm, o), d, MaxTime)
  /\ last' = <<"add_torrent", t, m_cursor>>
  /\ UNCHANGED <<files, failed, crashed>>

\* using an invalidated iterator is undefined: the handler went on as if the
\* iterator still referred to its element (the steps above), or the process
\* died in it
InvalidUseCrash ==
  /\ ~crashed
  /\ invalid_use # "none"
  /\ crashed' = TRUE
  /\ UNCHANGED <<m_torrents, m_cursor, m_last_save, m_num_in_flight, files, now,
                 session, has_metadata, need_save, outstanding, failed, slots,
                 last, cursor_valid, invalid_use, scan>>

NextRehash ==
  \/ \E t \in Torrents, hm, dy \in BOOLEAN, k \in 1..(NumTorrents + 1), d \in ClockSteps :
       TorrentAdded(t, hm, dy, k, d)
  \/ \E t \in Torrents, d \in ClockSteps : TorrentRemoved(t, d)
  \/ \E d \in ClockSteps : Heartbeat(d, MaxTime)
  \/ \E t \in Torrents, hm, dy \in BOOLEAN, d \in ClockSteps :
       \E o \in UNION {Orders(set) : set \in SUBSET Torrents} :
          TorrentAddedRehash(t, hm, dy, o, d)
  \/ InvalidUseCrash

SpecRehash == Init /\ [][NextRehash]_vars

\* ---- load(), lines 180-199 ----------------------------------------------

\* what a directory entry is to load(): a name without the .resume extension,
\* a .resume file load_file() cannot read, a .resume file whose bytes are not
\* resume data, a .resume file written by a save
FileKinds == {"other", "unreadable", "corrupt", "valid"}

\* the for loop of lines 185-198 from entry i on; the directory operation
\* number failAt sets ec: 0 is the constructor of dir, k the dir.next(ec)
\* after entry k, and a number above Len(dir) is none of them
RECURSIVE LoadLoop(_, _, _, _)
LoadLoop(dir, i, failAt, sub) ==
  IF failAt < i THEN [dir |-> dir, pos |-> i, ec |-> TRUE, submitted |-> sub, done |-> TRUE]
  ELSE IF i > Len(dir)
  THEN [dir |-> dir, pos |-> i, ec |-> FALSE, submitted |-> sub, done |-> TRUE]
  ELSE IF dir[i] = "other" THEN LoadLoop(dir, i + 1, failAt, sub)
  ELSE IF dir[i] = "unreadable" THEN LoadLoop(dir, i + 1, failAt, sub)
  ELSE LoadLoop(dir, i + 1, failAt, Append(sub, i))

InitLoad ==
  /\ m_torrents = <<>>
  /\ m_cursor = Begin(<<>>)
  /\ m_last_save = 0
  /\ m_num_in_flight = 0
  /\ files = {}
  /\ now = 0
  /\ session = {}
  /\ has_metadata = [t \in Torrents |-> FALSE]
  /\ need_save = [t \in Torrents |-> FALSE]
  /\ outstanding = [t \in Torrents |-> 0]
  /\ failed = 0
  /\ crashed = FALSE
  /\ slots = 0
  /\ last = <<"constructed", END, END>>
  /\ cursor_valid = TRUE
  /\ invalid_use = "none"
  /\ \E n \in 0..MaxFiles : \E dir \in [1..n -> FileKinds] :
       scan = [NoScan EXCEPT !.dir = dir]

Load(failAt) ==
  /\ ~scan.done
  /\ scan' = LoadLoop(scan.dir, 1, failAt, <<>>)
  /\ UNCHANGED objVars

NextLoad == \E failAt \in 0..(MaxFiles + 1) : Load(failAt)

SpecLoad == InitLoad /\ [][NextLoad]_vars

\* ---- a fixed population under alerts that never stop ----------------------
\* handle_alert reads the clock only in now - m_last_save (line 147), so here
\* times are counted from m_last_save, which makes m_last_save 0 and now the
\* elapsed time, and slots counts the iterations of the latest pass only: the
\* behaviours are infinite in a finite state space.

LiveSteps == {100, 200}

LiveStep(S, d) ==
  LET R == ThrottledPass([S EXCEPT !.slots = 0], now + d)
  IN /\ now' = now + d - R.last
     /\ Commit([R EXCEPT !.last = 0])

InitLive ==
  /\ \E n \in 1..NumTorrents :
       /\ m_torrents = [i \in 1..n |-> i]
       /\ session = 1..n
       /\ has_metadata = [t \in Torrents |-> t <= n]
  /\ m_cursor = Begin(m_torrents)
  /\ m_last_save = 0
  /\ m_num_in_flight = 0
  /\ files = {}
  /\ now = 0
  /\ need_save = [t \in Torrents |-> FALSE]
  /\ outstanding = [t \in Torrents |-> 0]
  /\ failed = 0
  /\ crashed = FALSE
  /\ slots = 0
  /\ last = <<"constructed", END, END>>
  /\ cursor_valid = TRUE
  /\ invalid_use = "none"
  /\ scan = NoScan

\* a stats_alert d seconds after the previous alert
LiveTick(d) ==
  /\ LiveStep(Here, d)
  /\ last' = <<"stats", END, m_cursor>>
  /\ UNCHANGED <<files, session, has_metadata, failed, crashed>>

\* a save_resume_data_alert for t d seconds after the previous alert
LiveAnswer(t, d) ==
  /\ outstanding[t] > 0
  /\ files' = files \cup {t}
  /\ LiveStep(AnswerBranch([Here EXCEPT !.dirty = DirtyOnAnswer(@, t)], t), d)
  /\ last' = <<"save_resume_data", t, m_cursor>>
  /\ UNCHANGED <<session, has_metadata, failed, crashed>>

NextLive ==
  \/ \E d \in LiveSteps : LiveTick(d)
  \/ \E t \in Torrents, d \in LiveSteps : LiveAnswer(t, d)
  \/ \E t \in Torrents : Progress(t)

\* stats_alerts are posted again and again (the object asks for them in line
\* 65), and the session answers every save_resume_data() it accepted
SpecLive ==
  /\ InitLive
  /\ [][NextLive]_vars
  /\ WF_vars(\E d \in LiveSteps : LiveTick(d))
  /\ \A t \in Torrents : WF_vars(\E d \in LiveSteps : LiveAnswer(t, d))

\* ---- the object and its environment, as declared -----------------------
TypeOK ==
  /\ Range(m_torrents) \subseteq session
  /\ Len(m_torrents) = Cardinality(Range(m_torrents))
  /\ m_cursor \in Range(m_torrents) \cup {END}
  /\ m_last_save <= now
  /\ files \subseteq DOMAIN outstanding
  /\ \A t \in DOMAIN outstanding : outstanding[t] >= 0
  /\ cursor_valid \in BOOLEAN
  /\ invalid_use \in {"none", "pass", "removal"}
  /\ Range(scan.submitted) \subseteq DOMAIN scan.dir

\* ---- C1 -----------------------------------------------------------------
\* C1: m_num_in_flight is never negative and always equals the number of
\* save requests issued minus those answered by save_resume_data_alert
\* minus those answered by save_resume_data_failed_alert, that is, the
\* number of requests not answered yet.
C1_InFlightBalanced ==
  /\ m_num_in_flight >= 0
  /\ m_num_in_flight = Outstanding(outstanding)

\* ---- C2 -----------------------------------------------------------------
\* C2: a torrent that has been removed from the session (and not added
\* again) has no resume file, whenever the answers to its earlier save
\* requests arrive.
C2_NoFileOnceRemoved ==
  \A t \in Torrents : (~crashed /\ t \notin session) => t \notin files

\* ---- C3 -----------------------------------------------------------------
\* C3: with a fixed population and nothing but ticks, once the ticks have
\* covered exactly one m_interval the loop of the throttled pass has run
\* exactly once per torrent, however the ticks were spaced.
C3_FullPassPerInterval ==
  now = Interval => slots = Len(m_torrents)

\* ---- C4 -----------------------------------------------------------------
\* C4: once every save request has been answered, by save_resume_data_alert
\* or by save_resume_data_failed_alert, m_num_in_flight is zero (so that
\* waiting for it to reach zero ends).
C4_DrainedWhenAnswered ==
  Outstanding(outstanding) = 0 => m_num_in_flight = 0

\* ---- C5 -----------------------------------------------------------------
\* what the claim says m_cursor is once the branch for the removal of t is
\* done: the torrent after t if the cursor was on t, the start of what is
\* left if t was the last one, and what it was if it was not on t
C5_Expected(t) ==
  IF m_cursor # t THEN m_cursor
  ELSE IF IndexOf(m_torrents, t) < Len(m_torrents)
       THEN m_torrents[IndexOf(m_torrents, t) + 1]
       ELSE IF Len(m_torrents) = 1 THEN END
            ELSE m_torrents[1]

\* C5: in every handling of a torrent_removed_alert for a torrent of
\* m_torrents (seen where the throttled pass that follows has nothing to
\* do, so that the cursor is as the branch left it), the cursor is on the
\* torrent that followed the removed one, or on the first of the remaining
\* ones if the removed one was last; a cursor on another torrent stays.
C5_CursorAfterRemoval ==
  [][\A t \in Torrents :
       (last' = <<"torrent_removed", t, m_cursor>> /\ t \in Range(m_torrents)
          /\ slots' = slots)
       => m_cursor' = C5_Expected(t)]_vars

\* the torrent under the cursor was removed and another remains, no
\* throttled pass has moved the cursor yet: it is on the one that remains
C5_Witness ==
  \E t \in Torrents :
    /\ last = <<"torrent_removed", t, t>>
    /\ t \notin Range(m_torrents)
    /\ Len(m_torrents) >= 1
    /\ m_cursor = m_torrents[1]
    /\ slots = 0

C7_OneRequestOnMetadata ==
  [][\A t \in Torrents :
       last' = <<"metadata_received", t, m_cursor>> /\ ~has_metadata[t] /\ has_metadata'[t]
       => outstanding'[t] = outstanding[t] + 1]_vars

\* ---- C8 -----------------------------------------------------------------
\* C8: the handling of a torrent_removed_alert for a torrent that is not in
\* m_torrents leaves the process alive and, the throttled pass aside (seen
\* where it has nothing to do), m_torrents, m_cursor and m_num_in_flight as
\* they were; and m_num_in_flight is never driven below zero.
C8_RemovalOfUnknownIgnored ==
  [][/\ \A t \in Torrents :
          (last' = <<"torrent_removed", t, m_cursor>> /\ t \notin Range(m_torrents)
             /\ t \in session /\ slots' = slots)
          => (/\ ~crashed'
              /\ m_torrents' = m_torrents
              /\ m_cursor' = m_cursor
              /\ m_num_in_flight' = m_num_in_flight)
     /\ m_num_in_flight' >= 0]_vars

\* ---- C9 -----------------------------------------------------------------
\* C9: save_all issues one request for each torrent of m_torrents that
\* needs saving and none for any other, adds the number of those requests
\* to m_num_in_flight, and leaves m_torrents, m_cursor and m_last_save as
\* they were.
C9_SaveAll ==
  [][last' = <<"save_all", END, m_cursor>>
     => /\ \A t \in Torrents :
             outstanding'[t] = outstanding[t]
                + (IF t \in Range(m_torrents) /\ need_save[t] THEN 1 ELSE 0)
        /\ m_num_in_flight' = m_num_in_flight
             + Cardinality({t \in Range(m_torrents) : need_save[t]})
        /\ UNCHANGED <<m_torrents, m_cursor, m_last_save>>]_vars

\* save_all has just requested a save of a torrent the cursor is not on,
\* although nothing was due, and none of a torrent that has nothing to save
C9_Witness ==
  /\ last[1] = "save_all"
  /\ \E t, u \in Range(m_torrents) :
       /\ need_save[t] /\ outstanding[t] = 1 /\ m_cursor # t
       /\ ~need_save[u] /\ outstanding[u] = 0
  /\ m_num_in_flight = 1
  /\ now = m_last_save

\* ---- C10 ----------------------------------------------------------------
\* C10: when save_file() fails in the handling of a save_resume_data_alert
\* for a torrent of m_torrents that needed saving (no file is there
\* afterwards), the torrent still needs saving, so that a later throttled
\* pass requests it again.
C10_FailedWriteStaysDirty ==
  [][\A t \in Torrents :
       (last' = <<"save_resume_data", t, m_cursor>> /\ outstanding[t] > 0
          /\ need_save[t] /\ t \in Range(m_torrents') /\ t \notin files')
       => need_save'[t]]_vars

\* C11: when load() has scanned the whole directory, the adds it submitted
\* are one for each valid .resume file and none for any other entry, so that
\* three valid files and a corrupt one give three adds.
C11_LoadSubmitsValidOnly ==
  (scan.done /\ ~scan.ec) =>
     Range(scan.submitted) = {i \in DOMAIN scan.dir : scan.dir[i] = "valid"}

\* C12: between two alerts, when m_torrents is not empty, m_cursor refers to
\* one of its elements; handle_alert never returns with m_cursor at end().
C12_CursorOnMember ==
  (Len(m_torrents) > 0 /\ ~crashed) => m_cursor \in Range(m_torrents)

\* the k elements the loop of lines 152-165 visits when it starts with m_cursor
C13_Visited(k) ==
  LET n == Len(m_torrents)
      p == IF m_cursor = END THEN 1 ELSE IndexOf(m_torrents, m_cursor)
  IN {m_torrents[((p - 1 + j) % n) + 1] : j \in 0..(k - 1)}

\* m_cursor after these k iterations: one past the last element visited
C13_AfterVisits(k) ==
  LET n == Len(m_torrents)
      p == IF m_cursor = END THEN 1 ELSE IndexOf(m_torrents, m_cursor)
      q == ((p + k - 2) % n) + 1
  IN IF q = n THEN END ELSE m_torrents[q + 1]

\* C13: a pass with k iterations (k >= 1) visits the k elements from m_cursor
\* on (from the first one when m_cursor is at the end), requests a save and
\* adds one to m_num_in_flight for exactly the visited ones that need a save,
\* and whatever they need it moves m_cursor by k and sets m_last_save to now.
C13_SlotEffects ==
  [][ LET k == NumToSave(Len(m_torrents), now' - m_last_save, Interval)
      IN (last'[1] = "stats" /\ Len(m_torrents) > 0 /\ k > 0) =>
           LET req == {t \in C13_Visited(k) : need_save[t]}
           IN /\ slots' = slots + k
              /\ m_cursor' = C13_AfterVisits(k)
              /\ m_last_save' = now'
              /\ m_num_in_flight' = m_num_in_flight + Cardinality(req)
              /\ \A t \in Torrents :
                   outstanding'[t] = outstanding[t] + (IF t \in req THEN 1 ELSE 0)
              /\ Cardinality(req) <= k ]_vars

\* a pass of one iteration has just visited a torrent that needs no save:
\* m_cursor has moved on from it, m_last_save is now, and nothing was requested
C13_Witness ==
  /\ last[1] = "stats"
  /\ Len(m_torrents) = 2
  /\ last[3] \in Range(m_torrents)
  /\ ~need_save[last[3]]
  /\ m_cursor # last[3]
  /\ m_last_save = now
  /\ m_num_in_flight = 0

\* C14: at no time is more than one save request of this object outstanding
\* (requested and not yet answered) for any one torrent.
C14_OneOutstandingPerTorrent ==
  \A t \in Torrents : outstanding[t] <= 1

\* the latest step was an alert whose pass visited t: t is among the slots
\* elements that come before m_cursor
C15_Visited(t) ==
  LET n == Len(m_torrents)
      q == IF m_cursor = END THEN n ELSE IndexOf(m_torrents, m_cursor) - 1
  IN /\ last[1] \in {"stats", "save_resume_data"}
     /\ n > 0
     /\ t \in {m_torrents[((q - 1 - j + n) % n) + 1] : j \in 0..(slots - 1)}

\* C15: with a fixed non-empty population and stats_alerts that keep coming as
\* time advances, the pass visits every torrent again and again, and a torrent
\* that needs a save is eventually visited while it still needs it (and so is
\* asked to save) unless a save answered before that.
C15_Rotation ==
  \A t \in Torrents :
    /\ []<>(t \in Range(m_torrents) => C15_Visited(t))
    /\ (t \in Range(m_torrents) /\ need_save[t])
          ~> (~need_save[t] \/ (C15_Visited(t) /\ outstanding[t] > 0))

\* the pass has just visited the second torrent while it needed a save
C15_Witness ==
  /\ Len(m_torrents) = 2
  /\ last[1] = "stats"
  /\ C15_Visited(m_torrents[2])
  /\ need_save[m_torrents[2]]
  /\ outstanding[m_torrents[2]] > 0

\* C16: a stats_alert that finds m_torrents empty, or for which the number of
\* torrents to save is 0, requests nothing and leaves m_cursor and m_last_save
\* as they were; and no step changes m_last_save without running at least one
\* iteration of the loop.
C16_IdleTick ==
  [][ /\ (/\ last'[1] = "stats"
          /\ \/ Len(m_torrents) = 0
             \/ NumToSave(Len(m_torrents), now' - m_last_save, Interval) = 0)
         => UNCHANGED <<m_cursor, m_last_save, outstanding, m_num_in_flight, slots>>
      /\ (m_last_save' # m_last_save) => (slots' > slots) ]_vars

\* a stats_alert has just come later than m_last_save with torrents tracked,
\* and too early for any of them to be due
C16_Witness ==
  /\ last[1] = "stats"
  /\ Len(m_torrents) > 0
  /\ now > m_last_save
  /\ NumToSave(Len(m_torrents), now - m_last_save, Interval) = 0

\* C17: an add_torrent_alert for a torrent already in m_torrents leaves
\* m_torrents as it is, and for a new torrent adds that torrent and nothing
\* else; either way m_cursor, if it was at the end, is set to the first
\* element, and one save is requested and counted in m_num_in_flight exactly
\* when the torrent has metadata. (Observed where the pass that follows runs
\* no iteration.)
C17_AddEffects ==
  [][ \A t \in Torrents :
        (last' = <<"add_torrent", t, m_cursor>> /\ slots' = slots) =>
          LET r == IF has_metadata'[t] THEN 1 ELSE 0
          IN /\ Range(m_torrents') = Range(m_torrents) \cup {t}
             /\ Len(m_torrents') = Cardinality(Range(m_torrents'))
             /\ t \in Range(m_torrents) => m_torrents' = m_torrents
             /\ m_cursor' = IF m_cursor = END THEN m_torrents'[1] ELSE m_cursor
             /\ outstanding' = [outstanding EXCEPT ![t] = @ + r]
             /\ m_num_in_flight' = m_num_in_flight + r ]_vars

\* a torrent with metadata has just been added while m_cursor was at the end:
\* m_cursor is on the first element and one request is out for the torrent
C17_Witness ==
  /\ last[1] = "add_torrent"
  /\ last[3] = END
  /\ slots = 0
  /\ last[2] \in Range(m_torrents)
  /\ m_cursor = m_torrents[1]
  /\ has_metadata[last[2]]
  /\ outstanding[last[2]] = 1
  /\ m_num_in_flight = 1

\* C18: m_torrents holds exactly the torrents whose add_torrent_alert was
\* handled with no torrent_removed_alert handled after it: it starts empty,
\* an add_torrent_alert adds its torrent, a torrent_removed_alert takes its
\* torrent out, and no other alert (metadata received, also for a torrent not
\* in the set; save completed; save failed; stats) and no save_all changes
\* which torrents it holds.
C18_Membership ==
  [][ /\ last'[1] = "add_torrent" =>
           Range(m_torrents') = Range(m_torrents) \cup {last'[2]}
      /\ last'[1] = "torrent_removed" =>
           Range(m_torrents') = Range(m_torrents) \ {last'[2]}
      /\ last'[1] \notin {"add_torrent", "torrent_removed"} =>
           Range(m_torrents') = Range(m_torrents) ]_vars

\* a metadata_received_alert has just been handled for a torrent that is not
\* in m_torrents: a save was requested from it and it is still not tracked
C18_Witness ==
  /\ last[1] = "metadata_received"
  /\ last[2] \notin Range(m_torrents)
  /\ outstanding[last[2]] > 0
  /\ Len(m_torrents) > 0

\* C19: no step requests a save from a torrent that has no metadata: whenever
\* the number of requests outstanding for a torrent goes up, the torrent has
\* metadata.
C19_NoRequestWithoutMetadata ==
  [][ \A t \in Torrents :
        outstanding'[t] > outstanding[t] => has_metadata'[t] ]_vars

\* C20: whenever the loop of the throttled pass dereferences m_cursor, the
\* iterator refers to an element of m_torrents: it is not end(), not an
\* erased element, and not an iterator that an insert() has invalidated by
\* rehashing the set.
C20_PassDereferencesMember ==
  invalid_use # "pass"

====
